---- MODULE Spec2Model ----
(***************************************************************************)
(* Model of the accumulation scanner (main.py) and of the heartbeat bot    *)
(* (bot.py).                                                               *)
(*                                                                         *)
(* Units.  Timestamps are integer seconds, as now_ts() returns them.       *)
(* accumulation_hours is the float (ts - start) / 3600.0; every use the    *)
(* code makes of it is a comparison with a whole number of hours or a sort *)
(* key, so the model carries its numerator in seconds and compares         *)
(* secs >= th * 3600.  Percentages are carried in hundredths of a percent, *)
(* the volume ratio in hundredths, money in whole dollars.                 *)
(***************************************************************************)
EXTENDS Integers, Sequences, FiniteSets, TLC

\* ------------------------------------------------------------------------
\* Configuration of main.py
\* ------------------------------------------------------------------------
SCAN_INTERVAL_SECONDS == 300
MAX_PRODUCTS == 250
MAX_RANGE_PCT_72H == 800
MIN_VOLUME_RATIO_6H_OVER_PRIOR24H == 130
MAX_VOLATILITY_PCT_24H == 300
MAX_CHANGE_PCT_24H == 500
MIN_QUOTE_VOL_24H_USD == 250000
MIN_MARKET_CAP_USD == 10000000
USE_SLIPPAGE_FILTER == TRUE
MAX_SPREAD_PCT == 60
MAX_SLIPPAGE_PCT == 80
ALERT_COOLDOWN_HOURS == 8
SCORE_IMPROVEMENT_TO_RE_ALERT == 2
DURATION_THRESHOLDS_HOURS == <<12, 24, 48>>
MIN_CANDLES == 60
TOP_CANDIDATES == 10
HOUR == 3600

\* Python's None, for the Optional[float] fields and for a missing feed field.
None == -1

\* ------------------------------------------------------------------------
\* Python dicts: a dict is a function whose domain is its key set.
\* ------------------------------------------------------------------------
EmptyDict == [k \in {} |-> 0]

Get(d, k, default) == IF k \in DOMAIN d THEN d[k] ELSE default

Put(d, k, v) == [x \in (DOMAIN d) \cup {k} |-> IF x = k THEN v ELSE d[x]]

Pop(d, k) == [x \in (DOMAIN d) \ {k} |-> d[x]]

\* state.setdefault(product_id, {}) : the state afterwards.
SetDefault(st, pid) == IF pid \in DOMAIN st THEN st ELSE Put(st, pid, EmptyDict)

Max(a, b) == IF a >= b THEN a ELSE b

Min(a, b) == IF a <= b THEN a ELSE b

\* ------------------------------------------------------------------------
\* calc_accumulation_metrics.  The candle series is abstracted to its length
\* and to the window statistics the function derives from it (price, range,
\* volatility, change, quote volume, volume ratio); the function's early
\* returns on the length and on the price are kept.  An Optional
\* [AccumulationMetrics] is a sequence of length 0 (None) or 1.
\* ------------------------------------------------------------------------
NoMetrics == <<>>

calc_accumulation_metrics(product_id, candles_72h, market_cap_usd) ==
    IF candles_72h.n < MIN_CANDLES THEN NoMetrics
    ELSE IF candles_72h.price <= 0 THEN NoMetrics
    ELSE <<[product_id       |-> product_id,
          price              |-> candles_72h.price,
          range_pct_72h      |-> candles_72h.range_pct_72h,
          volatility_pct_24h |-> candles_72h.volatility_pct_24h,
          change_pct_24h     |-> candles_72h.change_pct_24h,
          quote_vol_24h_usd  |-> candles_72h.quote_vol_24h_usd,
          volume_ratio       |-> candles_72h.volume_ratio,
          spread_pct         |-> None,
          slippage_pct       |-> None,
          accumulation_hours |-> 0,
          score              |-> 0,
          market_cap_usd     |-> market_cap_usd]>>

clamp(n, lo, hi) == Max(lo, Min(hi, n))

score_metrics(m) ==
    LET range  == IF m.range_pct_72h <= 500 THEN 2
                  ELSE IF m.range_pct_72h <= 800 THEN 1 ELSE 0
        volume == IF m.volume_ratio >= 150 THEN 2
                  ELSE IF m.volume_ratio >= 130 THEN 1 ELSE 0
        volat  == IF m.volatility_pct_24h <= 200 THEN 2
                  ELSE IF m.volatility_pct_24h <= 300 THEN 1 ELSE 0
        liq    == IF m.quote_vol_24h_usd >= 5000000 THEN 2
                  ELSE IF m.quote_vol_24h_usd >= 1000000 THEN 1 ELSE 0
        mcap   == IF m.market_cap_usd # None
                  THEN IF m.market_cap_usd >= 100000000 THEN 2
                       ELSE IF m.market_cap_usd >= 25000000 THEN 1 ELSE 0
                  ELSE 0
        spread == IF m.spread_pct # None /\ m.spread_pct <= 30 THEN 1 ELSE 0
        slip   == IF m.slippage_pct # None /\ m.slippage_pct <= 40 THEN 1 ELSE 0
        score  == range + volume + volat + liq + mcap + spread + slip
    IN  IF score > 0 THEN clamp(score, 1, 10) ELSE 1

\* passes_hard_gates: the list of reasons, in the order the code appends them.
GateReasons(m) ==
    (IF m.range_pct_72h > MAX_RANGE_PCT_72H THEN <<"range">> ELSE <<>>)
    \o (IF m.volume_ratio < MIN_VOLUME_RATIO_6H_OVER_PRIOR24H
        THEN <<"vol_ratio">> ELSE <<>>)
    \o (IF m.volatility_pct_24h > MAX_VOLATILITY_PCT_24H
        THEN <<"volatility">> ELSE <<>>)
    \o (IF m.change_pct_24h > MAX_CHANGE_PCT_24H THEN <<"chg24h">> ELSE <<>>)
    \o (IF m.quote_vol_24h_usd < MIN_QUOTE_VOL_24H_USD THEN <<"liq24h">> ELSE <<>>)
    \o (IF m.market_cap_usd # None /\ m.market_cap_usd < MIN_MARKET_CAP_USD
        THEN <<"mcap">> ELSE <<>>)
    \o (IF USE_SLIPPAGE_FILTER
        THEN (IF m.spread_pct = None THEN <<"no_spread">>
              ELSE IF m.spread_pct > MAX_SPREAD_PCT THEN <<"spread">> ELSE <<>>)
             \o (IF m.slippage_pct = None THEN <<"no_slippage">>
                 ELSE IF m.slippage_pct > MAX_SLIPPAGE_PCT THEN <<"slip">>
                 ELSE <<>>)
        ELSE <<>>)

\* A variant that lets a missing spread or slippage through.
passes_hard_gates_missing_book(m) ==
    LET reasons == SelectSeq(GateReasons(m),
                             LAMBDA r : r \notin {"no_spread", "no_slippage"})
    IN  [ok |-> Len(reasons) = 0, reasons |-> reasons]

passes_hard_gates(m) ==
    LET reasons == GateReasons(m)
    IN  [ok |-> Len(reasons) = 0, reasons |-> reasons]

\* ------------------------------------------------------------------------
\* State / dedupe
\* ------------------------------------------------------------------------

\* Python truthiness of s.get(key): absent and 0 are both false.
Truthy(s, k) == k \in DOMAIN s /\ s[k] # 0

\* update_accumulation_duration: the state afterwards and the value returned
\* (the numerator of accumulation_hours, in seconds).
\* A variant that keeps the run fields when the product is not accumulating.
update_accumulation_duration_keep(st, product_id, is_accumulating, t) ==
    LET st1 == SetDefault(st, product_id)
        s   == st1[product_id]
        s1  == IF is_accumulating
               THEN Put(IF ~Truthy(s, "accum_start_ts")
                        THEN Put(s, "accum_start_ts", t) ELSE s,
                        "last_accum_ts", t)
               ELSE s
    IN  [state |-> Put(st1, product_id, s1),
         hours |-> IF ~Truthy(s1, "accum_start_ts") THEN 0
                   ELSE Max(0, t - s1["accum_start_ts"])]

update_accumulation_duration(st, product_id, is_accumulating, ts) ==
    LET st1 == SetDefault(st, product_id)
        s   == st1[product_id]
        s1  == IF is_accumulating
               THEN Put(IF ~Truthy(s, "accum_start_ts")
                        THEN Put(s, "accum_start_ts", ts) ELSE s,
                        "last_accum_ts", ts)
               ELSE Pop(Pop(s, "accum_start_ts"), "last_accum_ts")
    IN  [state |-> Put(st1, product_id, s1),
         hours |-> IF ~Truthy(s1, "accum_start_ts") THEN 0
                   ELSE Max(0, ts - s1["accum_start_ts"])]

\* The loop "for th in DURATION_THRESHOLDS_HOURS: if hours >= th: bucket = th",
\* from position i with the bucket found so far.
RECURSIVE BucketLoop(_, _, _)
BucketLoop(secs, i, bucket) ==
    IF i > Len(DURATION_THRESHOLDS_HOURS) THEN bucket
    ELSE BucketLoop(secs, i + 1,
                    IF secs >= DURATION_THRESHOLDS_HOURS[i] * HOUR
                    THEN DURATION_THRESHOLDS_HOURS[i] ELSE bucket)

DurationBucket(secs) == BucketLoop(secs, 1, 0)

\* A variant whose cooldown must be strictly exceeded.
should_alert_strict(st, m, t) ==
    LET st1 == SetDefault(st, m.product_id)
        s   == st1[m.product_id]
        last_alert_ts        == Get(s, "last_alert_ts", 0)
        last_score           == Get(s, "last_alert_score", 0)
        last_duration_bucket == Get(s, "last_duration_bucket", 0)
        cooldown_ok    == (t - last_alert_ts) > ALERT_COOLDOWN_HOURS * HOUR
        bucket         == DurationBucket(m.accumulation_hours)
        crossed_bucket == bucket > last_duration_bucket
        improved_score == (m.score - last_score) >= SCORE_IMPROVEMENT_TO_RE_ALERT
    IN  [state  |-> st1,
         result |-> last_alert_ts = 0
                    \/ (cooldown_ok /\ (improved_score \/ crossed_bucket))]

should_alert(st, m, ts) ==
    LET st1 == SetDefault(st, m.product_id)
        s   == st1[m.product_id]
        last_alert_ts        == Get(s, "last_alert_ts", 0)
        last_score           == Get(s, "last_alert_score", 0)
        last_duration_bucket == Get(s, "last_duration_bucket", 0)
        cooldown_ok    == (ts - last_alert_ts) >= ALERT_COOLDOWN_HOURS * HOUR
        bucket         == DurationBucket(m.accumulation_hours)
        crossed_bucket == bucket > last_duration_bucket
        improved_score == (m.score - last_score) >= SCORE_IMPROVEMENT_TO_RE_ALERT
    IN  [state  |-> st1,
         result |-> IF last_alert_ts = 0 THEN TRUE
                    ELSE IF cooldown_ok /\ (improved_score \/ crossed_bucket)
                         THEN TRUE
                         ELSE FALSE]

record_alert(st, m, ts) ==
    LET st1 == SetDefault(st, m.product_id)
        s   == st1[m.product_id]
    IN  Put(st1, m.product_id,
            Put(Put(Put(s, "last_alert_ts", ts),
                    "last_alert_score", m.score),
                "last_duration_bucket", DurationBucket(m.accumulation_hours)))

\* ------------------------------------------------------------------------
\* Sorting and the top slice of scan_once
\* ------------------------------------------------------------------------

\* Tuple comparison of the sort key (score, accumulation_hours, quote volume).
KeyGreater(a, b) ==
    \/ a.score > b.score
    \/ a.score = b.score /\ a.accumulation_hours > b.accumulation_hours
    \/ /\ a.score = b.score
       /\ a.accumulation_hours = b.accumulation_hours
       /\ a.quote_vol_24h_usd > b.quote_vol_24h_usd

\* x placed after every element whose key is not smaller: list.sort is stable,
\* also with reverse=True.
RECURSIVE InsertSorted(_, _)
InsertSorted(x, sorted) ==
    IF sorted = <<>> THEN <<x>>
    ELSE IF KeyGreater(x, Head(sorted)) THEN <<x>> \o sorted
    ELSE <<Head(sorted)>> \o InsertSorted(x, Tail(sorted))

RECURSIVE SortFrom(_, _)
SortFrom(rest, sorted) ==
    IF rest = <<>> THEN sorted
    ELSE SortFrom(Tail(rest), InsertSorted(Head(rest), sorted))

SortBestFirst(cands) == SortFrom(cands, <<>>)

TopSlice(cands) == SubSeq(cands, 1, Min(Len(cands), TOP_CANDIDATES))

\* ------------------------------------------------------------------------
\* list_coinbase_products_usd: the filter over the feed, capped at
\* max_products.  The feed is the concatenation of the pages.
\* ------------------------------------------------------------------------
KeepProduct(p) ==
    /\ p.product_id # ""
    /\ p.quote_display_symbol = "USD"
    /\ ~p.disabled
    /\ ~p.perp

RECURSIVE FilterFeed(_, _, _)
FilterFeed(feed, products, max_products) ==
    IF feed = <<>> \/ Len(products) >= max_products THEN products
    ELSE FilterFeed(Tail(feed),
                    IF KeepProduct(Head(feed))
                    THEN Append(products, Head(feed)) ELSE products,
                    max_products)

list_coinbase_products_usd(feed, max_products) ==
    FilterFeed(feed, <<>>, max_products)

\* Market cap of a feed entry as scan_once reads it: a missing or
\* non-positive value is unknown.
MarketCapOf(p) ==
    IF p.market_cap = None THEN None
    ELSE IF p.market_cap <= 0 THEN None
    ELSE p.market_cap

\* ------------------------------------------------------------------------
\* Bounds and sampled inputs
\* ------------------------------------------------------------------------
MaxScans == 2
MaxSingleScans == 4
MaxDurationScans == 5
StartTs == 1000
MaxHeartbeats == 60

Products == {"A-USD", "B-USD"}

StateKeys == {"accum_start_ts", "last_accum_ts", "last_alert_ts",
              "last_alert_score", "last_duration_bucket"}

AlertKeys == {"last_alert_ts", "last_alert_score", "last_duration_bucket"}

\* Seconds from one scan's now_ts() to the next: the sleep alone, or the
\* sleep and a long scan or outage.
Steps == {SCAN_INTERVAL_SECONDS, 12 * HOUR}

FeedEntry(pid, quote, disabled, mcap) ==
    [product_id |-> pid, quote_display_symbol |-> quote, disabled |-> disabled,
     perp |-> FALSE, market_cap |-> mcap]

\* Feeds of two products, with entries the filter drops.
Feeds ==
    {<<>>,
     <<FeedEntry("A-USD", "USD", FALSE, None)>>,
     <<FeedEntry("A-USD", "USD", FALSE, 0),
       FeedEntry("B-USD", "USD", FALSE, None)>>,
     <<FeedEntry("B-USD", "USD", FALSE, None),
       FeedEntry("ETH-EUR", "EUR", FALSE, None),
       FeedEntry("A-USD", "USD", FALSE, 9999999)>>,
     <<FeedEntry("A-USD", "USD", TRUE, None),
       FeedEntry("B-USD", "USD", FALSE, None)>>}

\* Feeds of one product.
SingleFeeds == {<<>>, <<FeedEntry("A-USD", "USD", FALSE, None)>>}

\* Window statistics of a candle series: every gate exactly at its limit, ...
AtLimits ==
    [n |-> 60, price |-> 1, range_pct_72h |-> 800, volatility_pct_24h |-> 300,
     change_pct_24h |-> 500, quote_vol_24h_usd |-> 250000, volume_ratio |-> 130]

\* ... a quiet, liquid market, ...
Quiet ==
    [n |-> 72, price |-> 1, range_pct_72h |-> 500, volatility_pct_24h |-> 200,
     change_pct_24h |-> 0, quote_vol_24h_usd |-> 5000000, volume_ratio |-> 150]

\* ... and each single statistic one step past its limit.
CandleSamples ==
    {AtLimits,
     [AtLimits EXCEPT !.n = 59],
     [AtLimits EXCEPT !.price = 0],
     [AtLimits EXCEPT !.range_pct_72h = 801],
     [AtLimits EXCEPT !.volume_ratio = 129],
     [AtLimits EXCEPT !.volatility_pct_24h = 301],
     [AtLimits EXCEPT !.change_pct_24h = 501],
     [AtLimits EXCEPT !.quote_vol_24h_usd = 249999]}

ScoredCandleSamples == {AtLimits, Quiet}

\* calc_spread_and_slippage: (spread_pct, slippage_pct); the error reason is
\* not used by the caller.
BookSamples ==
    {<<None, None>>, <<60, None>>, <<60, 80>>, <<61, 80>>, <<60, 81>>}

ScoredBookSamples == {<<60, 80>>, <<30, 40>>}

TightBookSamples == {<<None, None>>, <<30, 40>>}

\* ------------------------------------------------------------------------
\* Variables
\* ------------------------------------------------------------------------
VARIABLES
    pc,          \* position of main(): "loop", "eval", "alert", "except", "sleep"
    now,         \* the clock now_ts() reads
    ts,          \* scan_once's ts
    scans,       \* number of scan_once calls made
    configured,  \* TELEGRAM_BOT_TOKEN and TELEGRAM_CHAT_ID are both set
    state,       \* the dict main() holds
    file,        \* contents of STATE_FILE
    products,    \* products the loop of scan_once has still to visit
    candidates,  \* candidates; after the loop, the sorted top slice still to alert
    state0,      \* history: state when the current scan started
    evald,       \* history: how the current scan's loop left each product, and
                 \* the number of candles its metrics were computed from
    notified,    \* history: metrics for which telegram_send returned, this scan
    posted,      \* history: products for which the HTTP POST succeeded, this scan
    lastPost,    \* history: ts of each product's last successful POST, 0 if none
    prevPost,    \* history: lastPost when the current scan started
    runStart,    \* history: ts of the first scan in which the product passed the
                 \* gates since a scan last found it failing them, 0 if none
    unbroken,    \* history: ts of the first scan of the current run of
                 \* consecutive scans that found the product passing, 0 if none
    botPc,       \* position of bot.py: "start", "sleep", "send", "dead"
    botPosts,    \* number of messages bot.py has posted
    probe        \* a call of should_alert on sampled arguments, and its result

botVars == <<botPc, botPosts>>

mainVars == <<pc, now, ts, scans, configured, state, file, products, candidates,
              state0, evald, notified, posted, lastPost, prevPost, runStart,
              unbroken>>

vars == <<pc, now, ts, scans, configured, state, file, products, candidates,
          state0, evald, notified, posted, lastPost, prevPost, runStart,
          unbroken, botPc, botPosts, probe>>

NotEvaluated == [kind |-> "none", n |-> 0, hours |-> 0]

NoProbe == [called |-> FALSE]

\* load_state: the file's dict, or {} when the file is missing or unreadable.
load_state(f, readable) == IF readable THEN f ELSE EmptyDict

Init ==
    /\ pc = "loop"
    /\ now = StartTs
    /\ ts = 0
    /\ scans = 0
    /\ configured \in BOOLEAN
    /\ file = EmptyDict
    /\ state = load_state(file, FALSE)
    /\ products = <<>>
    /\ candidates = <<>>
    /\ state0 = state
    /\ evald = [p \in Products |-> NotEvaluated]
    /\ notified = {}
    /\ posted = {}
    /\ lastPost = [p \in Products |-> 0]
    /\ prevPost = [p \in Products |-> 0]
    /\ runStart = [p \in Products |-> 0]
    /\ unbroken = [p \in Products |-> 0]
    /\ botPc = "start"
    /\ botPosts = 0
    /\ probe = NoProbe

\* ------------------------------------------------------------------------
\* scan_once, step by step
\* ------------------------------------------------------------------------

\* The body of the product loop for feed entry p, once get_candles has
\* returned the series c and the order book has given book: the state
\* afterwards, the metrics evaluated (none when calc_accumulation_metrics
\* returned None) and whether they were appended to the candidates.
EvaluateProduct(st, p, c, book, t) ==
    LET metrics == calc_accumulation_metrics(p.product_id, c, MarketCapOf(p))
    IN  IF Len(metrics) = 0
        THEN [state |-> st, m |-> NoMetrics, appended |-> FALSE]
        ELSE LET m1 == [metrics[1] EXCEPT !.spread_pct = book[1],
                                          !.slippage_pct = book[2]]
                 m2 == [m1 EXCEPT !.score = score_metrics(m1)]
                 g  == passes_hard_gates(m2)
                 u  == update_accumulation_duration(st, p.product_id, g.ok, t)
                 m3 == [m2 EXCEPT !.accumulation_hours = u.hours]
             IN  [state |-> u.state, m |-> <<m3>>, appended |-> g.ok]

\* After the loop body: the next product, or the sort and the top slice.
LoopOn(prods, cands) ==
    /\ products' = prods
    /\ IF prods = <<>>
       THEN pc' = "alert" /\ candidates' = TopSlice(SortBestFirst(cands))
       ELSE pc' = "eval" /\ candidates' = cands

\* ts = now_ts(); products = list_coinbase_products_usd(MAX_PRODUCTS)
ScanStartOn(feeds) ==
    /\ pc = "loop"
    /\ ts' = now
    /\ scans' = scans + 1
    /\ \/ /\ pc' = "except"
          /\ UNCHANGED <<products, candidates>>
       \/ \E feed \in feeds :
             LoopOn(list_coinbase_products_usd(feed, MAX_PRODUCTS), <<>>)
    /\ UNCHANGED <<now, configured, state, file, state0, evald, notified,
                   posted, lastPost, prevPost, runStart, unbroken, botVars,
                   probe>>

\* History of the runs, when a scan finds product pid passing the gates
\* (found = "passed"), failing them ("failed") or neither.
Found(pid, found) ==
    /\ runStart' = [runStart EXCEPT ![pid] =
                       IF found = "passed" THEN (IF @ = 0 THEN ts ELSE @)
                       ELSE IF found = "failed" THEN 0 ELSE @]
    /\ unbroken' = [unbroken EXCEPT ![pid] =
                       IF found = "passed" THEN (IF @ = 0 THEN ts ELSE @)
                       ELSE IF found = "failed" THEN 0 ELSE @]

\* One iteration of "for p in products".
EvalProductOn(candleSamples, bookSamples) ==
    /\ pc = "eval"
    /\ products # <<>>
    /\ LET p == Head(products) IN
       \/ \* get_candles raised : except Exception ... continue
          /\ evald' = [evald EXCEPT ![p.product_id] =
                          [kind |-> "raised", n |-> 0, hours |-> 0]]
          /\ state' = state
          /\ Found(p.product_id, "raised")
          /\ LoopOn(Tail(products), candidates)
       \/ \E c \in candleSamples, book \in bookSamples :
             LET r    == EvaluateProduct(state, p, c, book, ts)
                 kind == IF Len(r.m) = 0 THEN "nometrics"
                         ELSE IF Len(GateReasons(r.m[1])) = 0 THEN "passed"
                         ELSE "failed"
             IN
             /\ state' = r.state
             /\ evald' = [evald EXCEPT ![p.product_id] =
                             [kind  |-> kind,
                              n     |-> IF Len(r.m) = 0 THEN 0 ELSE c.n,
                              hours |-> IF Len(r.m) = 0 THEN 0
                                        ELSE r.m[1].accumulation_hours]]
             /\ Found(p.product_id, kind)
             /\ LoopOn(Tail(products),
                       IF r.appended THEN Append(candidates, r.m[1])
                       ELSE candidates)
    /\ UNCHANGED <<now, ts, scans, configured, file, state0, notified, posted,
                   lastPost, prevPost, botVars, probe>>

\* telegram_send: "printed" when the bot is not configured, else the POST and
\* raise_for_status: "posted" or "raised".
telegram_send(isConfigured, http) ==
    IF ~isConfigured THEN "printed"
    ELSE IF http = "ok" THEN "posted" ELSE "raised"

\* The body of "for m in top" when should_alert returned True: the state after
\* telegram_send(msg); record_alert(state, m, ts).
\* A variant that records the alert before sending it.
RecordThenSend(st, m, t, sent) == record_alert(st, m, t)

SendAndRecord(st, m, t, sent) ==
    IF sent = "raised" THEN st ELSE record_alert(st, m, t)

\* One iteration of "for m in top".
AlertStep ==
    /\ pc = "alert"
    /\ candidates # <<>>
    /\ LET m   == Head(candidates)
           pid == m.product_id
           sa  == should_alert(state, m, ts)
       IN  IF ~sa.result
           THEN /\ state' = sa.state
                /\ candidates' = Tail(candidates)
                /\ UNCHANGED <<pc, notified, posted, lastPost>>
           ELSE \E http \in {"ok", "error"} :
                  LET sent == telegram_send(configured, http) IN
                  /\ state' = SendAndRecord(sa.state, m, ts, sent)
                  /\ posted' = IF sent = "posted" THEN posted \cup {pid} ELSE posted
                  /\ lastPost' = IF sent = "posted"
                                 THEN [lastPost EXCEPT ![pid] = ts] ELSE lastPost
                  /\ notified' = IF sent = "raised" THEN notified
                                 ELSE notified \cup {m}
                  /\ IF sent = "raised"
                     THEN pc' = "except" /\ candidates' = candidates
                     ELSE pc' = pc /\ candidates' = Tail(candidates)
    /\ UNCHANGED <<now, ts, scans, configured, file, products, state0, evald,
                   prevPost, runStart, unbroken, botVars, probe>>

\* save_state(state): the temporary file replaces STATE_FILE, or the write
\* raises and STATE_FILE keeps its contents.
SaveState ==
    /\ pc = "alert"
    /\ candidates = <<>>
    /\ \/ file' = state /\ pc' = "sleep"
       \/ file' = file /\ pc' = "except"
    /\ UNCHANGED <<now, ts, scans, configured, state, products, candidates,
                   state0, evald, notified, posted, lastPost, prevPost,
                   runStart, unbroken, botVars, probe>>

\* ------------------------------------------------------------------------
\* main
\* ------------------------------------------------------------------------

\* Where main() continues when scan_once raises an Exception.
\* A variant without the handler: the exception ends the process.
ExceptionEndsMain == "dead"

MainOnException == "sleep"

\* except Exception as e: print(...)
Except ==
    /\ pc = "except"
    /\ pc' = MainOnException
    /\ UNCHANGED <<now, ts, scans, configured, state, file, products,
                   candidates, state0, evald, notified, posted, lastPost,
                   prevPost, runStart, unbroken, botVars, probe>>

\* The per-scan history starts afresh; a scan that did not find a product
\* passing ended its run of consecutive passing scans.
NewScanHistory(st, lp) ==
    /\ state0' = st
    /\ evald' = [p \in Products |-> NotEvaluated]
    /\ notified' = {}
    /\ posted' = {}
    /\ prevPost' = lp
    /\ unbroken' = [p \in Products |->
                       IF evald[p].kind = "passed" THEN unbroken[p] ELSE 0]

\* time.sleep(SCAN_INTERVAL_SECONDS), and back to the top of the loop.
SleepUpTo(cap) ==
    /\ pc = "sleep"
    /\ scans < cap
    /\ pc' = "loop"
    /\ \E d \in Steps : now' = now + d
    /\ products' = <<>>
    /\ candidates' = <<>>
    /\ NewScanHistory(state, lastPost)
    /\ UNCHANGED <<ts, scans, configured, state, file, lastPost, runStart,
                   botVars, probe>>

\* The process is stopped while it sleeps and started again: main() begins
\* with state = load_state(), and STATE_FILE is what save_state last put
\* there.  The runs continue from the accum_start_ts the file records.
Restart ==
    /\ pc = "sleep"
    /\ scans < MaxSingleScans
    /\ pc' = "loop"
    /\ \E d \in Steps : now' = now + d
    /\ configured' \in BOOLEAN
    /\ state' = load_state(file, file # EmptyDict)
    /\ products' = <<>>
    /\ candidates' = <<>>
    /\ NewScanHistory(state', lastPost)
    /\ runStart' = [p \in Products |->
                       Get(Get(state', p, EmptyDict), "accum_start_ts", 0)]
    /\ UNCHANGED <<ts, scans, file, lastPost, botVars, probe>>

\* The scanner over feeds of two products.
ScanStart == ScanStartOn(Feeds)

EvalProduct == EvalProductOn(CandleSamples, BookSamples)

Sleep == SleepUpTo(MaxScans)

Next == ScanStart \/ EvalProduct \/ AlertStep \/ SaveState \/ Except \/ Sleep

Spec == Init /\ [][Next]_vars

\* The scanner over feeds of one product, with several scores, for longer runs.
ScanOne == ScanStartOn(SingleFeeds)

EvalScored == EvalProductOn(ScoredCandleSamples, TightBookSamples)

LongSleep == SleepUpTo(MaxDurationScans)

DurationNext ==
    ScanOne \/ EvalScored \/ AlertStep \/ SaveState \/ Except \/ LongSleep

DurationSpec == Init /\ [][DurationNext]_vars

\* The scanner over feeds of one product, with every candle sample.
EvalOne == EvalProductOn(CandleSamples, ScoredBookSamples)

ShortSleep == SleepUpTo(MaxSingleScans)

SingleNext ==
    ScanOne \/ EvalOne \/ AlertStep \/ SaveState \/ Except \/ ShortSleep

SingleSpec == Init /\ [][SingleNext]_vars

\* main() is a sequential program that keeps running: every call it makes
\* returns or raises (the HTTP calls carry HTTP_TIMEOUT), and sleep returns.
SingleFairSpec == SingleSpec /\ WF_vars(SingleNext)

\* The same, stopped and started again.
RestartNext == SingleNext \/ Restart

RestartSpec == Init /\ [][RestartNext]_vars

\* ------------------------------------------------------------------------
\* bot.py
\* ------------------------------------------------------------------------

\* send_message: requests.post returns, or raises (no connection, ...).
\* Nothing in bot.py catches the exception: the script ends.
BotSend(after) ==
    /\ botPosts < MaxHeartbeats
    /\ \/ botPosts' = botPosts + 1 /\ botPc' = after
       \/ botPosts' = botPosts /\ botPc' = "dead"
    /\ UNCHANGED <<mainVars, probe>>

\* send_message("... is now LIVE.")
BotStartup == botPc = "start" /\ BotSend("sleep")

\* time.sleep(300)
BotSleep ==
    /\ botPc = "sleep"
    /\ botPc' = "send"
    /\ UNCHANGED <<botPosts, mainVars, probe>>

\* send_message("Scanner running...")
BotHeartbeat == botPc = "send" /\ BotSend("sleep")

BotNext == BotStartup \/ BotSleep \/ BotHeartbeat

BotSpec == Init /\ [][BotNext]_vars

\* ------------------------------------------------------------------------
\* should_alert on sampled arguments
\* ------------------------------------------------------------------------
ProbeTs == StartTs + 100 * HOUR

\* Dicts over the given keys with the given values, every key optional.
RECURSIVE DictsOver(_, _)
DictsOver(keys, values) ==
    IF keys = {} THEN {EmptyDict}
    ELSE LET k    == CHOOSE x \in keys : TRUE
             rest == DictsOver(keys \ {k}, values)
         IN  rest \cup {Put(d, k, v) : d \in rest, v \in values[k]}

ProbeEntries ==
    DictsOver(AlertKeys \cup {"accum_start_ts"},
              [k \in AlertKeys \cup {"accum_start_ts"} |->
                 CASE k = "last_alert_ts" ->
                        {0, ProbeTs - 8 * HOUR + 1, ProbeTs - 8 * HOUR,
                         ProbeTs - 60 * HOUR}
                   [] k = "last_alert_score" -> {0, 3}
                   [] k = "last_duration_bucket" -> {0, 12, 24, 48}
                   [] k = "accum_start_ts" -> {StartTs}])

ProbeStates ==
    {EmptyDict, [p \in {"B-USD"} |-> EmptyDict]}
    \cup {[p \in {"A-USD"} |-> e] : e \in ProbeEntries}

ProbeMetrics ==
    {[product_id |-> "A-USD", score |-> sc, accumulation_hours |-> secs] :
        sc \in {1, 4, 5}, secs \in {0, 12 * HOUR - 1, 12 * HOUR, 24 * HOUR,
                                    48 * HOUR - 1, 48 * HOUR, 99 * HOUR}}

CallShouldAlert ==
    /\ ~probe.called
    /\ \E st \in ProbeStates, m \in ProbeMetrics :
          LET r == should_alert(st, m, ProbeTs) IN
          probe' = [called |-> TRUE, state |-> st, m |-> m, ts |-> ProbeTs,
                    result |-> r.result, after |-> r.state]
    /\ UNCHANGED <<mainVars, botVars>>

ShouldAlertSpec == Init /\ [][CallShouldAlert]_vars

\* ------------------------------------------------------------------------
\* Properties
\* ------------------------------------------------------------------------
NotifiedIds == {m.product_id : m \in notified}

Restrict(d, keys) == [k \in (DOMAIN d) \cap keys |-> d[k]]

\* The last-alert fields, and the run fields, of a product's entry.
AlertFields(st, p) == Restrict(Get(st, p, EmptyDict), AlertKeys)

AccumFields(st, p) ==
    Restrict(Get(st, p, EmptyDict), {"accum_start_ts", "last_accum_ts"})

\* C1, as stated: in a scan, a product's last-alert fields change only after
\* an HTTP POST delivered its notification in that scan.
C1_RecordedOnlyAfterPost ==
    \A p \in Products :
        AlertFields(state, p) # AlertFields(state0, p) => p \in posted

\* C1, amended: in a scan, a product's last-alert fields change only after
\* telegram_send returned for it in that scan without raising (the POST
\* succeeded or, with the bot not configured, the message was printed and
\* nothing posted); they then hold the scan's ts.  With the bot configured the
\* POST succeeded.  Whenever telegram_send raised or was not called for the
\* product, its three fields are unchanged.
C1_RecordedOnlyAfterSendReturned ==
    \A p \in Products :
        AlertFields(state, p) # AlertFields(state0, p) =>
            /\ p \in NotifiedIds
            /\ configured => p \in posted
            /\ ~configured => p \notin posted
            /\ Get(AlertFields(state, p), "last_alert_ts", 0) = ts

\* telegram_send raised for one product after another was posted and recorded.
C1_Witness ==
    /\ pc = "except"
    /\ candidates # <<>>
    /\ posted # {}
    /\ Head(candidates).product_id \notin NotifiedIds
    /\ AlertFields(state, Head(candidates).product_id)
         = AlertFields(state0, Head(candidates).product_id)
    /\ \E p \in posted : AlertFields(state, p) # AlertFields(state0, p)

\* C2: two notifications posted for the same product are at least
\* ALERT_COOLDOWN_HOURS apart, across aborted scans and restarts.
C2_CooldownBetweenPosts ==
    \A p \in posted :
        prevPost[p] = 0 \/ ts - prevPost[p] >= ALERT_COOLDOWN_HOURS * HOUR

\* C3: no exception of scan_once ends main(): the handler leads to the sleep
\* of at least SCAN_INTERVAL_SECONDS, and after every failed scan another
\* scan_once is started (while the model's cap on scans allows one).
C3_LoopSurvivesExceptions ==
    /\ [](pc # "dead")
    /\ [][pc = "except" => pc' = "sleep"]_vars
    /\ [][pc = "sleep" => now' >= now + SCAN_INTERVAL_SECONDS]_vars
    /\ \A n \in 1..(MaxSingleScans - 1) :
          (pc = "except" /\ scans = n) ~> (scans = n + 1)

\* A scan is under way after a scan that did not reach save_state.
C3_Witness ==
    /\ scans >= 2
    /\ pc \in {"eval", "alert"}
    /\ file # state0

\* C4: bot.py survives a failing send_message.
C4_BotSurvives == botPc # "dead"

\* Every hard gate, written out.
GatesHeld(m) ==
    /\ m.range_pct_72h <= 800
    /\ m.volume_ratio >= 130
    /\ m.volatility_pct_24h <= 300
    /\ m.change_pct_24h <= 500
    /\ m.quote_vol_24h_usd >= 250000
    /\ m.market_cap_usd = None \/ m.market_cap_usd >= 10000000
    /\ m.spread_pct # None /\ m.spread_pct <= 60
    /\ m.slippage_pct # None /\ m.slippage_pct <= 80

\* C5: a notification is emitted in a scan only for metrics computed in that
\* scan from at least 60 candles, for which passes_hard_gates returned
\* (True, []) and every gate held; a product found failing a gate in the scan
\* is not notified in it.
C5_NotifiedOnlyIfGatesPassed ==
    /\ \A m \in notified :
          /\ evald[m.product_id].kind = "passed"
          /\ evald[m.product_id].n >= 60
          /\ passes_hard_gates(m) = [ok |-> TRUE, reasons |-> <<>>]
          /\ GatesHeld(m)
    /\ \A p \in Products : evald[p].kind = "failed" => p \notin NotifiedIds

\* One product is notified in a scan that found the other failing a gate,
\* though it has no recorded alert.
C5_Witness ==
    /\ notified # {}
    /\ \E p \in Products :
          /\ evald[p].kind = "failed"
          /\ ~Truthy(Get(state, p, EmptyDict), "last_alert_ts")

\* The thresholds of DURATION_THRESHOLDS_HOURS that secs seconds have reached.
Reached(secs) == {th \in {12, 24, 48} : th * HOUR <= secs}

\* C6: should_alert returns True exactly when the product has no recorded
\* alert, or the cooldown has passed and the score improved by 2 or the
\* largest threshold reached exceeds last_duration_bucket; and it changes no
\* existing field of the state.
C6_ShouldAlertExactly ==
    probe.called =>
        LET s           == Get(probe.state, probe.m.product_id, EmptyDict)
            noRecord    == "last_alert_ts" \notin DOMAIN s \/ s["last_alert_ts"] = 0
            reached     == Reached(probe.m.accumulation_hours)
            largest     == CHOOSE th \in reached : \A o \in reached : o <= th
            crossed     == reached # {} /\ largest > Get(s, "last_duration_bucket", 0)
            improved    == probe.m.score - Get(s, "last_alert_score", 0) >= 2
            cooled      == probe.ts - Get(s, "last_alert_ts", 0) >= 28800
        IN  /\ probe.result = (noRecord \/ (cooled /\ (improved \/ crossed)))
            /\ \A p \in DOMAIN probe.state :
                  p \in DOMAIN probe.after /\ probe.after[p] = probe.state[p]

\* should_alert refuses exactly one second short of the cooldown, though the
\* duration crossed a bucket.
C6_Witness ==
    /\ probe.called
    /\ ~probe.result
    /\ "A-USD" \in DOMAIN probe.state
    /\ Get(probe.state["A-USD"], "last_alert_ts", 0) = probe.ts - 28799
    /\ Get(probe.state["A-USD"], "last_duration_bucket", 0) = 12
    /\ probe.m.accumulation_hours = 24 * HOUR

\* C7: after a scan that ran to its end, a product alerted before, found
\* passing (so among the top candidates: there are never more than ten),
\* whose duration reached a threshold it had not reached at the previous scan
\* of its run, with the cooldown over, was notified.
C7_ReAlertOnCrossing ==
    (pc = "sleep" /\ file = state) =>
        \A p \in Products :
            LET s0       == Get(state0, p, EmptyDict)
                prevSecs == IF Truthy(s0, "accum_start_ts")
                               /\ "last_accum_ts" \in DOMAIN s0
                            THEN s0["last_accum_ts"] - s0["accum_start_ts"]
                            ELSE 0
            IN  ( /\ evald[p].kind = "passed"
                  /\ Truthy(s0, "last_alert_ts")
                  /\ ts - Get(s0, "last_alert_ts", 0) >= 8 * HOUR
                  /\ \E th \in {12, 24, 48} :
                        evald[p].hours >= th * HOUR /\ prevSecs < th * HOUR )
                => p \in NotifiedIds

\* C8, as stated: the duration reported for a product found passing is the
\* time since the first scan of its current run of consecutive passing scans;
\* after a scan that found it failing, or could not evaluate it, the run
\* fields are gone.
C8_ConsecutiveRun ==
    \A p \in Products :
        LET s == Get(state, p, EmptyDict) IN
        /\ evald[p].kind = "passed" => evald[p].hours = ts - unbroken[p]
        /\ evald[p].kind \in {"failed", "raised", "nometrics"} =>
              /\ evald[p].hours = 0
              /\ "accum_start_ts" \notin DOMAIN s
              /\ "last_accum_ts" \notin DOMAIN s

\* C8, amended: the duration reported for a product found passing the gates
\* is the time since the first scan in which it passed them after the last
\* scan that evaluated it and found it failing; a scan that finds it failing
\* reports 0 and removes accum_start_ts and last_accum_ts; a scan that does
\* not evaluate the gates for it (too few candles, its fetch raised, it was
\* not listed) leaves both fields as they were and does not break the run.
C8_RunSinceLastGateFailure ==
    \A p \in Products :
        LET s == Get(state, p, EmptyDict) IN
        /\ evald[p].kind = "passed" =>
              /\ runStart[p] > 0
              /\ evald[p].hours = ts - runStart[p]
              /\ Get(s, "accum_start_ts", 0) = runStart[p]
              /\ Get(s, "last_accum_ts", 0) = ts
        /\ evald[p].kind = "failed" =>
              /\ evald[p].hours = 0
              /\ "accum_start_ts" \notin DOMAIN s
              /\ "last_accum_ts" \notin DOMAIN s
        /\ evald[p].kind \in {"none", "raised", "nometrics"} =>
              /\ evald[p].hours = 0
              /\ AccumFields(state, p) = AccumFields(state0, p)

\* A product passes again after a scan that could not evaluate it, and its
\* duration still counts from before that scan.
C8_Witness ==
    \E p \in Products :
        /\ evald[p].kind = "passed"
        /\ unbroken[p] = ts
        /\ runStart[p] < ts
        /\ evald[p].hours >= 12 * HOUR

====
